---- MODULE Spec2Model ----
(***************************************************************************)
(* Ingestion pipeline of rag-sergin: processDocument (services/document.ts) *)
(* against its collaborators (loader, text splitter, embedding provider,   *)
(* Qdrant client).  One call of processDocument is a sequential process    *)
(* whose steps are the statements between two awaits; several calls may be *)
(* in flight against the same collection.                                  *)
(***************************************************************************)
EXTENDS Integers, Sequences, FiniteSets, TLC

(***************************************************************************)
(* Bounds of the model.                                                    *)
(***************************************************************************)
\* largest number of chunks the splitter produces for one document
MaxChunks == 150
\* defective items the embedding provider may produce in one run
MaxFaults == 1
\* failed upserts the vector store may produce in one run
MaxStoreFailures == 6

(***************************************************************************)
(* Program constants.                                                      *)
(***************************************************************************)
MIN_CHUNK_LENGTH == 10
EMBEDDING_BATCH_SIZE == 50
EXPECTED_DIMENSION == 384
BATCH_SIZE == 50
MAX_RETRIES == 3
INITIAL_DELAY == 1000

\* a dimension the embedding provider may wrongly produce
WrongDimension == 256

Calls == {"c1", "c2"}

Min(a, b) == IF a <= b THEN a ELSE b

\* Math.ceil(n / d) for n >= 0, d > 0
Ceil(n, d) == (n + d - 1) \div d

(***************************************************************************)
(* Strings.  A text is its leading white space, its core (identified by    *)
(* key, len characters long, beginning and ending with a non-blank when    *)
(* len > 0) and its trailing white space.                                  *)
(***************************************************************************)
Text(pre, key, len, post) == [pre |-> pre, key |-> key, len |-> len, post |-> post]

\* String.prototype.trim
Trim(t) == Text(0, t.key, t.len, 0)

\* String.prototype.length
Length(t) == t.pre + t.len + t.post

(***************************************************************************)
(* Strings (String.prototype.toLowerCase / includes / startsWith / split). *)
(***************************************************************************)
UpperCaseLetters == "ABCDEFGHIJKLMNOPQRSTUVWXYZ"

LowerCaseLetters == "abcdefghijklmnopqrstuvwxyz"

CharAt(s, k) == SubSeq(s, k, k)

LowerChar(ch) ==
    IF \E k \in 1..26 : CharAt(UpperCaseLetters, k) = ch
    THEN CharAt(LowerCaseLetters, CHOOSE k \in 1..26 : CharAt(UpperCaseLetters, k) = ch)
    ELSE ch

RECURSIVE ToLowerCaseFrom(_, _)
ToLowerCaseFrom(s, k) ==
    IF k > Len(s) THEN "" ELSE LowerChar(CharAt(s, k)) \o ToLowerCaseFrom(s, k + 1)

\* String.prototype.toLowerCase
ToLowerCase(s) == ToLowerCaseFrom(s, 1)

\* String.prototype.includes
Includes(s, d) == \E k \in 1..(Len(s) - Len(d) + 1) : SubSeq(s, k, k + Len(d) - 1) = d

\* String.prototype.startsWith
StartsWith(s, p) == Len(s) >= Len(p) /\ SubSeq(s, 1, Len(p)) = p

\* s.toLowerCase().split(".").pop(): what follows the last dot, the whole
\* string when it has no dot
Extension(s) ==
    LET l == ToLowerCase(s)
        dots == {k \in 1..Len(l) : CharAt(l, k) = "."}
        last == CHOOSE k \in dots : \A m \in dots : m <= k
    IN  IF dots = {} THEN l
        ELSE IF last = Len(l) THEN ""
        ELSE SubSeq(l, last + 1, Len(l))

(***************************************************************************)
(* Source files and what the loader and the splitter make of them.         *)
(***************************************************************************)
Shapes == {"plain", "ragged", "blank"}

\* the j-th piece (0-based) the splitter cuts out of a document of a shape
Piece(shape, j) ==
    CASE shape = "blank" -> Text(2, j, 0, 1)
      [] shape = "ragged" /\ j % 4 = 1 -> Text(1, j, MIN_CHUNK_LENGTH - 1, 1)
      [] shape = "ragged" /\ j % 4 = 2 -> Text(2, j, MIN_CHUNK_LENGTH, 0)
      [] shape = "ragged" /\ j % 4 = 3 -> Text(0, j, 0, 3)
      [] OTHER -> Text(0, j, 40, 0)

ChunkCounts == {0, 1, 2, 50, 51, 120, MaxChunks}

File(name, segments, pieces, shape) ==
    [fileName |-> name, segments |-> segments, pieces |-> pieces, shape |-> shape]

Files ==
    {File("a.pdf", 1, n, sh) : n \in ChunkCounts, sh \in Shapes}
        \cup {File("a.pdf", 0, 0, "plain"), File("a.pdf", 0, 0, "blank"),
              File("b.epub", 0, 0, "plain"),
              File("b.epub", 1, 1, "plain"), File("c.txt", 1, 1, "plain")}

NoFile == File("", 0, 0, "plain")

SmallFiles == {File("a.pdf", 1, n, "plain") : n \in {1, 2, 51}}

DetectDocumentType_ExtensionFirst(fileName) ==
    CASE Extension(fileName) = "pdf" -> "pdf"
      [] Extension(fileName) = "epub" -> "epub"
      [] StartsWith(fileName, "http://") \/ StartsWith(fileName, "https://") -> "url"
      [] OTHER -> "unsupported"

\* detectDocumentType(fileName); "unsupported" stands for the Error it throws
DetectDocumentType(fileName) ==
    IF StartsWith(fileName, "http://") \/ StartsWith(fileName, "https://") THEN "url"
    ELSE CASE Extension(fileName) = "pdf" -> "pdf"
           [] Extension(fileName) = "epub" -> "epub"
           [] OTHER -> "unsupported"

\* DocumentLoaderFactory.createLoader(type)
CreateLoader(type) ==
    CASE type = "pdf" -> "PDFDocumentLoader"
      [] type = "epub" -> "EPUBDocumentLoader"
      [] type = "url" -> "URLDocumentLoader"
      [] OTHER -> "none"

\* textResult.text || "" of a PDF: nothing, white space only, or text
ExtractedText(f) ==
    CASE f.segments = 0 /\ f.shape = "blank" -> Text(0, 0, 0, 0)
      [] f.segments = 0 -> Text(1, 0, 0, 1)
      [] OTHER -> Text(0, 0, f.pieces + 1, 0)

PdfIsEmpty_NoTrim(text) == Length(text) = 0

\* !textContent || textContent.trim().length === 0
PdfIsEmpty(text) == Length(text) = 0 \/ Length(Trim(text)) = 0

\* loader.load(filePath): the one document of a PDF, the chapters of an EPUB
LoadDocuments(f) ==
    IF DetectDocumentType(f.fileName) = "pdf"
    THEN <<[page |-> 1, file |-> f]>>
    ELSE [s \in 1..f.segments |-> [page |-> s, file |-> f]]

\* textSplitter.splitDocuments(documents)
SplitDocuments(docs) ==
    IF Len(docs) = 0 THEN <<>>
    ELSE [j \in 1..docs[1].file.pieces |->
            [pageContent |-> Piece(docs[1].file.shape, j - 1), page |-> docs[1].page]]

(***************************************************************************)
(* Sequence helpers (Array.prototype.filter / slice).                      *)
(***************************************************************************)
\* the elements s[lo..hi] whose keep flag is set, in order
RECURSIVE FilterRange(_, _, _, _)
FilterRange(s, keep, lo, hi) ==
    IF lo > hi THEN <<>>
    ELSE IF lo = hi THEN (IF keep[lo] THEN <<s[lo]>> ELSE <<>>)
    ELSE LET mid == (lo + hi) \div 2
         IN  FilterRange(s, keep, lo, mid) \o FilterRange(s, keep, mid + 1, hi)

FilterSeq(s, keep) == FilterRange(s, keep, 1, Len(s))

Slice_FromStart(s, i, size) == SubSeq(s, 1, Min(size, Len(s)))

Slice_OffByOne(s, i, size) == SubSeq(s, i + 1, Min(i + size - 1, Len(s)))

\* s.slice(i, i + size), i 0-based
Slice(s, i, size) == SubSeq(s, i + 1, Min(i + size, Len(s)))

\* s without its p-th element
Without(s, p) == SubSeq(s, 1, p - 1) \o SubSeq(s, p + 1, Len(s))

(***************************************************************************)
(* Vectors.  A value returned by the embedding provider for one text is an *)
(* array of len numbers computed from text `of', or undefined, or a value  *)
(* that is not an array.                                                   *)
(***************************************************************************)
NoText == Text(0, -1, 0, 0)

Undefined == [kind |-> "undefined", of |-> NoText, len |-> 0]

Vector(t, n) == [kind |-> "array", of |-> t, len |-> n]

NotArray(t) == [kind |-> "object", of |-> t, len |-> 0]

\* embeddingsVectors[index], index 0-based; undefined past the end
At(s, index) == IF index + 1 <= Len(s) THEN s[index + 1] ELSE Undefined

Defects == {"wrongdim", "undefined", "notarray", "omitted"}

\* what embeddings.embedDocuments(batch) returns when its p-th item is defective
EmbedDocuments(batch, defect, p) ==
    LET good == [k \in 1..Len(batch) |-> Vector(batch[k], EXPECTED_DIMENSION)]
    IN  CASE defect = "none" -> good
          [] defect = "wrongdim" -> [good EXCEPT ![p] = Vector(batch[p], WrongDimension)]
          [] defect = "undefined" -> [good EXCEPT ![p] = Undefined]
          [] defect = "notarray" -> [good EXCEPT ![p] = NotArray(batch[p])]
          [] defect = "omitted" -> Without(good, p)

VARIABLES
    pc,                 \* position of each call
    input,              \* DocumentDto of each call
    documents,          \* loader.load result
    chunks,             \* textSplitter.splitDocuments result
    documentId,         \* uuid of the document, 0 while not generated
    docChunks,          \* documentsChunksWithMetadata
    embI,               \* loop variable i of the embedding loop
    embeddingsVectors,  \* vectors collected so far
    data,               \* validData
    i,                  \* loop variable i of the write loop
    retries,            \* retries left for the current write batch
    delay,              \* current backoff delay
    result,             \* what the call returned or threw
    trace,              \* what each call did so far, in order
    store,              \* points of the Qdrant collection
    nextId,             \* next uuid the generator hands out
    faults,             \* defective items the embedding provider will yet produce
    outages,            \* upsert failures the store will yet produce
    embedCalls,         \* history: the batches passed to embedDocuments, in call order
    defective,          \* history: texts the provider gave no good vector for
    submitted,          \* history: points passed to upsert, by call
    committed,          \* history: points of the upserts that succeeded, by call
    upsertCalls,        \* history: the upsert calls of each call, in order
    faulted,            \* history: the stage failures each call met
    response,           \* what the upload route answered for each call
    scrapePc,           \* position of the scrapeUrl call
    url,                \* scrapeUrl: the url argument
    engine,             \* scrapeUrl: the engine argument, "" when not given
    selectedEngine,     \* scrapeUrl: selectedEngine, "" while not selected
    browser,            \* the browser of PlaywrightWebBaseLoader: none, open or closed
    content,            \* the text the strategy extracted from the page
    scraped,            \* what scrapeUrl returned or threw
    fetched,            \* how the axios.get of the static strategy settled
    thrown,             \* the message of the error scrapeUrl threw
    locator,            \* createLoaderFromFileName: the fileName argument
    loaderPc,           \* position of the createLoaderFromFileName call
    documentType,       \* createLoaderFromFileName: type
    loader,             \* the loader the factory created, "none" when it has not
    urlPc,              \* position of the processUrl call
    scraperEngine,      \* processUrl: the scraperEngine argument, "" when not given
    indexedWith,        \* history: the engine that extracted what the loader returned
    scrapes,            \* history: the scrapeUrl calls of the processUrl call
    urlResponse,        \* what processUrl returned
    streamPc,           \* position of the POST /rag/stream request
    searchResults,      \* streamRAG: number of results of searchDocuments
    llmStream,          \* the tokens the LLM stream yields, and where it fails
    yielded,            \* number of tokens read from the LLM stream so far
    written,            \* the events written to the response, in order
    ended               \* res.end() has been called

vars == <<pc, input, documents, chunks, documentId, docChunks, embI, embeddingsVectors,
          data, i, retries, delay, result, trace, store, nextId, faults, outages,
          embedCalls, defective, submitted, committed, upsertCalls, faulted, response,
          scrapePc, url, engine, selectedEngine, browser, content, scraped, fetched, thrown,
          locator, loaderPc, documentType, loader,
          urlPc, scraperEngine, indexedWith, scrapes, urlResponse,
          streamPc, searchResults, llmStream, yielded, written, ended>>

pipelineVars == <<pc, input, documents, chunks, documentId, docChunks, embI, embeddingsVectors,
                  data, i, retries, delay, result, trace, store, nextId, faults, outages,
                  embedCalls, defective, submitted, committed, upsertCalls, faulted, response>>

scrapeVars == <<scrapePc, url, engine, selectedEngine, browser, content, scraped, fetched, thrown>>

Event(ev, batch, n) == [ev |-> ev, batch |-> batch, n |-> n]

\* outcome of a call; cause is the position in the trace of the event whose
\* error is rethrown, 0 when the error is one of processDocument's own
NoResult == [kind |-> "none", error |-> "", cause |-> 0, documentId |-> 0, chunksCount |-> 0]

Thrown(err) == [kind |-> "error", error |-> err, cause |-> 0, documentId |-> 0, chunksCount |-> 0]

Log(c, e) == trace' = [trace EXCEPT ![c] = Append(@, e)]

Throw_Swallow(c, err) ==
    /\ pc' = [pc EXCEPT ![c] = "done"]
    /\ result' = [result EXCEPT ![c] = [kind |-> "success", error |-> "", cause |-> 0,
                                        documentId |-> documentId[c],
                                        chunksCount |-> Len(docChunks[c])]]

\* the call rejects with err
Throw(c, err) ==
    /\ pc' = [pc EXCEPT ![c] = "failed"]
    /\ result' = [result EXCEPT ![c] = Thrown(err)]

\* a stage of the call fails
Fault(c, stage) == faulted' = [faulted EXCEPT ![c] = @ \cup {stage}]

\* a stage of the call fails and the call rejects with its error
Fail(c, err) == Fault(c, err) /\ Throw(c, err)

\* no answer of the route yet
NoResponse == [status |-> 0, success |-> FALSE, documentId |-> 0]

\* POST /documents/upload: res.json on return, res.status(500).json in the catch
RouteResponse(r) ==
    IF r.kind = "success"
    THEN [status |-> 200, success |-> TRUE, documentId |-> r.documentId]
    ELSE [status |-> 500, success |-> FALSE, documentId |-> 0]

loaderVars == <<locator, loaderPc, documentType, loader>>

urlVars == <<urlPc, scraperEngine, indexedWith, scrapes, urlResponse>>

streamVars == <<streamPc, searchResults, llmStream, yielded, written, ended>>

NoUrlResponse == [success |-> FALSE, documentId |-> 0, chunksCount |-> 0, scraperEngine |-> ""]

\* processUrl(url, e) has just been called for some e of engines; no call
\* when engines is empty
UrlInit(engines) ==
    /\ scraperEngine \in engines \cup {""}
    /\ urlPc = IF engines = {} THEN "idle" ELSE "ingest"
    /\ indexedWith = ""
    /\ scrapes = 0
    /\ urlResponse = NoUrlResponse

\* an LLM stream: the tokens it yields, and the number of tokens after which
\* reading it fails (-1: it ends normally)
LlmStream(tokens, failsAfter) == [tokens |-> tokens, failsAfter |-> failsAfter]

NoStream == LlmStream(<<>>, -1)

\* searchDocuments has not returned
NotSearched == -1

\* POST /rag/stream has just been received and will meet one of the streams
StreamInit(streams) ==
    /\ llmStream \in streams \cup {NoStream}
    /\ streamPc = IF streams = {} THEN "idle" ELSE "search"
    /\ searchResults = NotSearched
    /\ yielded = 0
    /\ written = <<>>
    /\ ended = FALSE

NoUrl == ""

\* createLoaderFromFileName(name) has just been called, for some name of names
LoaderInit(names) ==
    /\ locator \in names
    /\ loaderPc = IF locator = "" THEN "idle" ELSE "detect"
    /\ documentType = ""
    /\ loader = "none"

\* how an axios.get settles: resolved with a response, or rejected with an
\* AxiosError that has a code, a response (status 0: none) and a request
Settled(resolved, code, status, request) ==
    [resolved |-> resolved, code |-> code, status |-> status, request |-> request]

NotFetched == Settled(FALSE, "", 0, FALSE)

\* an error message: its fixed text, the status it quotes, the message it wraps
Message(text, status, inner) == [text |-> text, status |-> status, inner |-> inner]

NoMessage == Message("", 0, "")

\* scrapeUrl(u, e) has just been called, for some u of urls and e of engines
ScraperInit(urls, engines) ==
    /\ url \in urls
    /\ engine \in engines
    /\ scrapePc = IF url = NoUrl THEN "idle" ELSE "select"
    /\ selectedEngine = ""
    /\ browser = "none"
    /\ content = NoText
    /\ scraped = "none"
    /\ fetched = NotFetched
    /\ thrown = NoMessage

PipelineInit(files, callers, nfaults, noutages) ==
    /\ \E f \in files :
         input = [c \in Calls |-> IF c \in callers THEN f ELSE NoFile]
    /\ pc = [c \in Calls |-> IF c \in callers THEN "verify" ELSE "idle"]
    /\ documents = [c \in Calls |-> <<>>]
    /\ chunks = [c \in Calls |-> <<>>]
    /\ documentId = [c \in Calls |-> 0]
    /\ docChunks = [c \in Calls |-> <<>>]
    /\ embI = [c \in Calls |-> 0]
    /\ embeddingsVectors = [c \in Calls |-> <<>>]
    /\ data = [c \in Calls |-> <<>>]
    /\ i = [c \in Calls |-> 0]
    /\ retries = [c \in Calls |-> 0]
    /\ delay = [c \in Calls |-> 0]
    /\ result = [c \in Calls |-> NoResult]
    /\ trace = [c \in Calls |-> <<>>]
    /\ store = {}
    /\ nextId = 1
    /\ faults = nfaults
    /\ outages = noutages
    /\ embedCalls = [c \in Calls |-> <<>>]
    /\ defective = [c \in Calls |-> {}]
    /\ submitted = [c \in Calls |-> {}]
    /\ committed = [c \in Calls |-> {}]
    /\ upsertCalls = [c \in Calls |-> <<>>]
    /\ faulted = [c \in Calls |-> {}]
    /\ response = [c \in Calls |-> NoResponse]

InitWith(files, callers, nfaults, noutages) ==
    /\ PipelineInit(files, callers, nfaults, noutages)
    /\ ScraperInit({NoUrl}, {""})
    /\ LoaderInit({""})
    /\ UrlInit({})
    /\ StreamInit({})

\* one call of processDocument
Init == InitWith(Files, {"c1"}, MaxFaults, MaxStoreFailures)

\* two calls for the same source, in flight together
InitConcurrent == InitWith(SmallFiles, Calls, 1, 1)

(***************************************************************************)
(* processDocument, one action per step between awaits.                    *)
(***************************************************************************)
BatchNumber(k, size) == (k \div size) + 1

\* texts = documentsChunksWithMetadata.map(doc => doc.text)
Texts(c) == [k \in 1..Len(docChunks[c]) |-> docChunks[c][k].text]

Verify_Continue(c) ==
    /\ pc[c] = "verify"
    /\ UNCHANGED scrapeVars
    /\ UNCHANGED loaderVars
    /\ UNCHANGED urlVars
    /\ UNCHANGED streamVars
    /\ Log(c, Event("verify", 0, 0))
    /\ pc' = [pc EXCEPT ![c] = "load"]
    /\ \/ UNCHANGED faulted
       \/ Fault(c, "connectivity")
    /\ UNCHANGED <<input, documents, chunks, documentId, docChunks, embI, embeddingsVectors,
                   data, i, retries, delay, result, store, nextId, faults, outages,
                   embedCalls, defective, submitted, committed, upsertCalls, response>>

\* 0. qdrantClient.getCollections()
Verify(c) ==
    /\ pc[c] = "verify"
    /\ UNCHANGED scrapeVars
    /\ UNCHANGED loaderVars
    /\ UNCHANGED urlVars
    /\ UNCHANGED streamVars
    /\ Log(c, Event("verify", 0, 0))
    /\ \/ /\ pc' = [pc EXCEPT ![c] = "load"]
          /\ UNCHANGED <<result, faulted>>
       \/ Fail(c, "connectivity")
    /\ UNCHANGED <<input, documents, chunks, documentId, docChunks, embI, embeddingsVectors,
                   data, i, retries, delay, store, nextId, faults, outages,
                   embedCalls, defective, submitted, committed>>
    /\ UNCHANGED <<upsertCalls, response>>

\* 1. createLoaderFromFileName(fileName), loader.load(filePath)
Load(c) ==
    /\ pc[c] = "load"
    /\ UNCHANGED scrapeVars
    /\ UNCHANGED loaderVars
    /\ UNCHANGED urlVars
    /\ UNCHANGED streamVars
    /\ DetectDocumentType(input[c].fileName) # "url"
    /\ Log(c, Event("load", 0, 0))
    /\ LET type == DetectDocumentType(input[c].fileName)
           docs == LoadDocuments(input[c])
       IN  CASE type = "unsupported" ->
                  /\ Fail(c, "unsupported-type")
                  /\ UNCHANGED documents
             [] type = "pdf" /\ PdfIsEmpty(ExtractedText(input[c])) ->
                  /\ Fail(c, "load")
                  /\ UNCHANGED documents
             [] type = "epub" /\ Len(docs) = 0 ->
                  /\ \/ Fail(c, "load")
                     \/ Fail(c, "no-documents")
                  /\ UNCHANGED documents
             [] OTHER ->
                  \/ /\ Len(docs) > 0
                     /\ documents' = [documents EXCEPT ![c] = docs]
                     /\ pc' = [pc EXCEPT ![c] = "split"]
                     /\ UNCHANGED <<result, faulted>>
                  \/ /\ Len(docs) = 0
                     /\ Fail(c, "no-documents")
                     /\ UNCHANGED documents
                  \/ /\ Fail(c, "load")
                     /\ UNCHANGED documents
    /\ UNCHANGED <<input, chunks, documentId, docChunks, embI, embeddingsVectors,
                   data, i, retries, delay, store, nextId, faults, outages,
                   embedCalls, defective, submitted, committed>>
    /\ UNCHANGED <<upsertCalls, response>>

\* 2. textSplitter.splitDocuments(documents)
Split(c) ==
    /\ pc[c] = "split"
    /\ UNCHANGED scrapeVars
    /\ UNCHANGED loaderVars
    /\ UNCHANGED urlVars
    /\ UNCHANGED streamVars
    /\ Log(c, Event("chunk", 0, 0))
    /\ LET cs == SplitDocuments(documents[c])
       IN  IF Len(cs) = 0
           THEN /\ Fail(c, "no-chunks")
                /\ UNCHANGED chunks
           ELSE /\ chunks' = [chunks EXCEPT ![c] = cs]
                /\ pc' = [pc EXCEPT ![c] = "docid"]
                /\ UNCHANGED <<result, faulted>>
    /\ UNCHANGED <<input, documents, documentId, docChunks, embI, embeddingsVectors,
                   data, i, retries, delay, store, nextId, faults, outages,
                   embedCalls, defective, submitted, committed>>
    /\ UNCHANGED <<upsertCalls, response>>

\* 3. const documentId = uuidv4()
GenerateDocumentId(c) ==
    /\ pc[c] = "docid"
    /\ UNCHANGED scrapeVars
    /\ UNCHANGED loaderVars
    /\ UNCHANGED urlVars
    /\ UNCHANGED streamVars
    /\ Log(c, Event("identity", 0, 0))
    /\ documentId' = [documentId EXCEPT ![c] = nextId]
    /\ nextId' = nextId + 1
    /\ pc' = [pc EXCEPT ![c] = "filter"]
    /\ UNCHANGED <<input, documents, chunks, docChunks, embI, embeddingsVectors,
                   data, i, retries, delay, result, store, faults, outages,
                   embedCalls, defective, submitted, committed>>
    /\ UNCHANGED <<upsertCalls, faulted, response>>

IsValidChunk_NoTrim(chunk) == Length(chunk.pageContent) >= MIN_CHUNK_LENGTH

\* chunk => chunk.pageContent.trim().length >= 10
IsValidChunk(chunk) == Length(Trim(chunk.pageContent)) >= MIN_CHUNK_LENGTH

\* chunks.filter(...)
ValidChunks(cs) == FilterSeq(cs, [k \in 1..Len(cs) |-> IsValidChunk(cs[k])])

ChunkId_FromIndex(firstId, k) == k

\* id: uuidv4() of the k-th valid chunk: the uuids of one map are handed out in a row
ChunkId(firstId, k) == firstId + k - 1

ChunkIndex_PerBatch(k) == (k - 1) % EMBEDDING_BATCH_SIZE

\* chunkIndex: index, the 0-based position among the valid chunks
ChunkIndex(k) == k - 1

\* validChunks.map((chunk, index) => ({id: uuidv4(), text, metadata}))
WithMetadata(valid, docId, fileName, firstId) ==
    [k \in 1..Len(valid) |->
        [id |-> ChunkId(firstId, k),
         text |-> Trim(valid[k].pageContent),
         metadata |-> [documentId |-> docId,
                       chunkIndex |-> ChunkIndex(k),
                       fileName |-> fileName,
                       uploadAt |-> "now",
                       page |-> valid[k].page]]]

NoValidChunks_Never(valid) == FALSE

\* validChunks.length === 0
NoValidChunks(valid) == Len(valid) = 0

\* filter of too short chunks, then ids and indices of the remaining ones
FilterChunks(c) ==
    /\ pc[c] = "filter"
    /\ UNCHANGED scrapeVars
    /\ UNCHANGED loaderVars
    /\ UNCHANGED urlVars
    /\ UNCHANGED streamVars
    /\ Log(c, Event("filter", 0, 0))
    /\ LET valid == ValidChunks(chunks[c])
       IN  IF NoValidChunks(valid)
           THEN /\ Fail(c, "no-valid-chunks")
                /\ UNCHANGED <<docChunks, nextId, embI>>
           ELSE /\ docChunks' = [docChunks EXCEPT ![c] =
                        WithMetadata(valid, documentId[c], input[c].fileName, nextId)]
                /\ nextId' = nextId + Len(valid)
                /\ embI' = [embI EXCEPT ![c] = 0]
                /\ pc' = [pc EXCEPT ![c] = "embed"]
                /\ UNCHANGED <<result, faulted>>
    /\ UNCHANGED <<input, documents, chunks, documentId, embeddingsVectors,
                   data, i, retries, delay, store, faults, outages,
                   embedCalls, defective, submitted, committed>>
    /\ UNCHANGED <<upsertCalls, response>>

AfterEmbedding_Early(k, n) == "validate"

\* the condition i < texts.length of the embedding loop after i += EMBEDDING_BATCH_SIZE
AfterEmbedding(k, n) == IF k < n THEN "embed" ELSE "validate"

\* 4. head of the embedding loop: embeddings.embedDocuments(batch) is called
EmbedCall(c) ==
    /\ pc[c] = "embed"
    /\ UNCHANGED scrapeVars
    /\ UNCHANGED loaderVars
    /\ UNCHANGED urlVars
    /\ UNCHANGED streamVars
    /\ embI[c] < Len(Texts(c))
    /\ LET batch == Slice(Texts(c), embI[c], EMBEDDING_BATCH_SIZE)
       IN  /\ Log(c, Event("embed", BatchNumber(embI[c], EMBEDDING_BATCH_SIZE), Len(batch)))
           /\ embedCalls' = [embedCalls EXCEPT ![c] = Append(@, batch)]
    /\ pc' = [pc EXCEPT ![c] = "embedding"]
    /\ UNCHANGED <<input, documents, chunks, documentId, docChunks, embI, embeddingsVectors,
                   data, i, retries, delay, result, store, nextId, faults, outages,
                   defective, submitted, committed>>
    /\ UNCHANGED <<upsertCalls, faulted, response>>

\* positions of a batch at which the model lets the provider go wrong
DefectPositions(batch) == {1, Len(batch)}

EmbedFailure_Retry(c) ==
    /\ Log(c, Event("embed-fail", BatchNumber(embI[c], EMBEDDING_BATCH_SIZE),
                    Len(Slice(Texts(c), embI[c], EMBEDDING_BATCH_SIZE))))
    /\ pc' = [pc EXCEPT ![c] = "embed"]
    /\ Fault(c, "embedding")
    /\ UNCHANGED <<result, embeddingsVectors, embI, faults, defective>>

\* the awaited embedDocuments call rejects: the error leaves the loop and the call
EmbedFailure(c) ==
    /\ Log(c, Event("embed-fail", BatchNumber(embI[c], EMBEDDING_BATCH_SIZE),
                    Len(Slice(Texts(c), embI[c], EMBEDDING_BATCH_SIZE))))
    /\ pc' = [pc EXCEPT ![c] = "failed"]
    /\ result' = [result EXCEPT ![c] = [Thrown("embedding") EXCEPT !.cause = Len(trace'[c])]]
    /\ Fault(c, "embedding")
    /\ UNCHANGED <<embeddingsVectors, embI, faults, defective>>

\* the awaited embedDocuments call settles; embeddingsVectors.push(...batchEmbeddings)
EmbedReturn(c) ==
    /\ pc[c] = "embedding"
    /\ UNCHANGED scrapeVars
    /\ UNCHANGED loaderVars
    /\ UNCHANGED urlVars
    /\ UNCHANGED streamVars
    /\ LET batch == Slice(Texts(c), embI[c], EMBEDDING_BATCH_SIZE)
       IN  \/ EmbedFailure(c)
           \/ \E defect \in {"none"} \cup Defects, p \in DefectPositions(batch) :
                /\ defect = "none" => p = 1
                /\ defect # "none" => faults > 0
                /\ faults' = IF defect = "none" THEN faults ELSE faults - 1
                /\ defective' = IF defect = "none" THEN defective
                                ELSE [defective EXCEPT ![c] = @ \cup {batch[p]}]
                /\ Log(c, Event("embedded", BatchNumber(embI[c], EMBEDDING_BATCH_SIZE), Len(batch)))
                /\ embeddingsVectors' = [embeddingsVectors EXCEPT ![c] =
                         @ \o EmbedDocuments(batch, defect, p)]
                /\ embI' = [embI EXCEPT ![c] = @ + EMBEDDING_BATCH_SIZE]
                /\ pc' = [pc EXCEPT ![c] = AfterEmbedding(embI'[c], Len(Texts(c)))]
                /\ UNCHANGED <<result, faulted>>
    /\ UNCHANGED <<input, documents, chunks, documentId, docChunks,
                   data, i, retries, delay, store, nextId, outages,
                   embedCalls, submitted, committed>>
    /\ UNCHANGED <<upsertCalls, response>>

IsInvalidVector_NoLengthCheck(vector) ==
    \/ vector.kind = "undefined"
    \/ vector.kind # "array"

\* !vector || !Array.isArray(vector) || vector.length !== EXPECTED_DIMENSION
IsInvalidVector(vector) ==
    \/ vector.kind = "undefined"
    \/ vector.kind # "array"
    \/ vector.len # EXPECTED_DIMENSION

\* documentsChunksWithMetadata.map(...).filter(item => item !== null)
ValidData(dcs, vectors) ==
    LET point(k) == [id |-> dcs[k].id,
                     vector |-> At(vectors, k - 1),
                     payload |-> [text |-> dcs[k].text,
                                  documentId |-> dcs[k].metadata.documentId,
                                  chunkIndex |-> dcs[k].metadata.chunkIndex,
                                  fileName |-> dcs[k].metadata.fileName,
                                  uploadAt |-> dcs[k].metadata.uploadAt,
                                  page |-> dcs[k].metadata.page]]
    IN  FilterSeq([k \in 1..Len(dcs) |-> point(k)],
                  [k \in 1..Len(dcs) |-> ~IsInvalidVector(At(vectors, k - 1))])

NoValidVectors_Never(valid) == FALSE

\* validData.length === 0
NoValidVectors(valid) == Len(valid) = 0

\* 5. validation of the vectors
Validate(c) ==
    /\ pc[c] = "validate"
    /\ UNCHANGED scrapeVars
    /\ UNCHANGED loaderVars
    /\ UNCHANGED urlVars
    /\ UNCHANGED streamVars
    /\ Log(c, Event("validate", 0, 0))
    /\ LET valid == ValidData(docChunks[c], embeddingsVectors[c])
       IN  IF NoValidVectors(valid)
           THEN /\ Fail(c, "no-valid-vectors")
                /\ UNCHANGED <<data, i>>
           ELSE /\ data' = [data EXCEPT ![c] = valid]
                /\ i' = [i EXCEPT ![c] = 0]
                /\ pc' = [pc EXCEPT ![c] = "batch"]
                /\ UNCHANGED <<result, faulted>>
    /\ UNCHANGED <<input, documents, chunks, documentId, docChunks, embI, embeddingsVectors,
                   retries, delay, store, nextId, faults, outages,
                   embedCalls, defective, submitted, committed>>
    /\ UNCHANGED <<upsertCalls, response>>

\* head of the write loop: the next batch gets its retry state
InitialRetries_CarriedOver(left) == IF left = 0 THEN MAX_RETRIES ELSE left

\* let retries = 3, whatever the loop variable of the batch before was left at
InitialRetries(left) == MAX_RETRIES

StartBatch(c) ==
    /\ pc[c] = "batch"
    /\ UNCHANGED scrapeVars
    /\ UNCHANGED loaderVars
    /\ UNCHANGED urlVars
    /\ UNCHANGED streamVars
    /\ i[c] < Len(data[c])
    /\ retries' = [retries EXCEPT ![c] = InitialRetries(@)]
    /\ delay' = [delay EXCEPT ![c] = INITIAL_DELAY]
    /\ pc' = [pc EXCEPT ![c] = "upsert"]
    /\ UNCHANGED <<input, documents, chunks, documentId, docChunks, embI, embeddingsVectors,
                   data, i, result, trace, store, nextId, faults, outages,
                   embedCalls, defective, submitted, committed>>
    /\ UNCHANGED <<upsertCalls, faulted, response>>

\* qdrantClient.upsert(collection, {points}): points replace those of equal id
Upsert(points, batch) ==
    LET ids == {batch[k].id : k \in 1..Len(batch)}
    IN  {q \in points : q.id \notin ids} \cup {batch[k] : k \in 1..Len(batch)}

RetriesExhausted_Never(r) == FALSE

\* if (retries === 0) throw error
RetriesExhausted(r) == r = 0

RetriesAfterFailure_Kept(r) == r

\* retries--
RetriesAfterFailure(r) == r - 1

NextDelay_Constant(d) == d

\* delay *= 2
NextDelay(d) == d * 2

\* the points of a batch, as a set
Points(batch) == {batch[k] : k \in 1..Len(batch)}

AfterSuccess_SameBatch(k) == k

\* break, then i += BATCH_SIZE
AfterSuccess(k) == k + BATCH_SIZE

\* the upsert of the current batch succeeds
UpsertOk(c) ==
    /\ pc[c] = "upsert"
    /\ UNCHANGED scrapeVars
    /\ UNCHANGED loaderVars
    /\ UNCHANGED urlVars
    /\ UNCHANGED streamVars
    /\ retries[c] > 0
    /\ LET batch == Slice(data[c], i[c], BATCH_SIZE)
       IN  /\ Log(c, Event("upsert-ok", BatchNumber(i[c], BATCH_SIZE), Len(batch)))
           /\ store' = Upsert(store, batch)
           /\ submitted' = [submitted EXCEPT ![c] = @ \cup Points(batch)]
           /\ committed' = [committed EXCEPT ![c] = @ \cup Points(batch)]
           /\ upsertCalls' = [upsertCalls EXCEPT ![c] = Append(@, [points |-> batch, ok |-> TRUE])]
    /\ i' = [i EXCEPT ![c] = AfterSuccess(@)]
    /\ pc' = [pc EXCEPT ![c] = "batch"]
    /\ UNCHANGED <<input, documents, chunks, documentId, docChunks, embI, embeddingsVectors,
                   data, retries, delay, result, nextId, faults, outages,
                   embedCalls, defective>>
    /\ UNCHANGED <<faulted, response>>

\* the upsert of the current batch fails
UpsertFail(c) ==
    /\ pc[c] = "upsert"
    /\ UNCHANGED scrapeVars
    /\ UNCHANGED loaderVars
    /\ UNCHANGED urlVars
    /\ UNCHANGED streamVars
    /\ retries[c] > 0
    /\ outages > 0
    /\ outages' = outages - 1
    /\ LET batch == Slice(data[c], i[c], BATCH_SIZE)
       IN  /\ Log(c, Event("upsert-fail", BatchNumber(i[c], BATCH_SIZE), Len(batch)))
           /\ submitted' = [submitted EXCEPT ![c] = @ \cup Points(batch)]
           /\ upsertCalls' = [upsertCalls EXCEPT ![c] = Append(@, [points |-> batch, ok |-> FALSE])]
    /\ retries' = [retries EXCEPT ![c] = RetriesAfterFailure(@)]
    /\ IF RetriesExhausted(retries'[c])
       THEN /\ pc' = [pc EXCEPT ![c] = "failed"]
            /\ result' = [result EXCEPT ![c] =
                    [Thrown("upsert") EXCEPT !.cause = Len(trace'[c])]]
            /\ Fault(c, "upsert")
       ELSE /\ pc' = [pc EXCEPT ![c] = "sleep"]
            /\ UNCHANGED <<result, faulted>>
    /\ UNCHANGED <<input, documents, chunks, documentId, docChunks, embI, embeddingsVectors,
                   data, i, delay, store, nextId, faults,
                   embedCalls, defective, committed>>
    /\ UNCHANGED <<response>>

\* setTimeout(resolve, delay), delay *= 2, then the test of while (retries > 0)
Sleep(c) ==
    /\ pc[c] = "sleep"
    /\ UNCHANGED scrapeVars
    /\ UNCHANGED loaderVars
    /\ UNCHANGED urlVars
    /\ UNCHANGED streamVars
    /\ Log(c, Event("sleep", BatchNumber(i[c], BATCH_SIZE), delay[c]))
    /\ delay' = [delay EXCEPT ![c] = NextDelay(@)]
    /\ IF retries[c] > 0
       THEN /\ pc' = [pc EXCEPT ![c] = "upsert"]
            /\ UNCHANGED i
       ELSE /\ pc' = [pc EXCEPT ![c] = "batch"]
            /\ i' = [i EXCEPT ![c] = @ + BATCH_SIZE]
    /\ UNCHANGED <<input, documents, chunks, documentId, docChunks, embI, embeddingsVectors,
                   data, retries, result, store, nextId, faults, outages,
                   embedCalls, defective, submitted, committed>>
    /\ UNCHANGED <<upsertCalls, faulted, response>>

\* chunksCount of the response
ChunksCount(c) == Len(docChunks[c])

\* 6. the response
Return(c) ==
    /\ pc[c] = "batch"
    /\ UNCHANGED scrapeVars
    /\ UNCHANGED loaderVars
    /\ UNCHANGED urlVars
    /\ UNCHANGED streamVars
    /\ i[c] >= Len(data[c])
    /\ Log(c, Event("return", 0, 0))
    /\ result' = [result EXCEPT ![c] = [kind |-> "success", error |-> "", cause |-> 0,
                                        documentId |-> documentId[c],
                                        chunksCount |-> ChunksCount(c)]]
    /\ pc' = [pc EXCEPT ![c] = "done"]
    /\ UNCHANGED <<input, documents, chunks, documentId, docChunks, embI, embeddingsVectors,
                   data, i, retries, delay, store, nextId, faults, outages,
                   embedCalls, defective, submitted, committed>>
    /\ UNCHANGED <<upsertCalls, faulted, response>>

\* the route answers the request once processDocument has returned or thrown
Respond(c) ==
    /\ pc[c] \in {"done", "failed"}
    /\ UNCHANGED scrapeVars
    /\ UNCHANGED loaderVars
    /\ UNCHANGED urlVars
    /\ UNCHANGED streamVars
    /\ response[c] = NoResponse
    /\ response' = [response EXCEPT ![c] = RouteResponse(result[c])]
    /\ UNCHANGED <<pc, input, documents, chunks, documentId, docChunks, embI, embeddingsVectors,
                   data, i, retries, delay, result, trace, store, nextId, faults, outages,
                   embedCalls, defective, submitted, committed, upsertCalls, faulted>>

Next ==
    \E c \in Calls :
        \/ Verify(c)
        \/ Load(c)
        \/ Split(c)
        \/ GenerateDocumentId(c)
        \/ FilterChunks(c)
        \/ EmbedCall(c)
        \/ EmbedReturn(c)
        \/ Validate(c)
        \/ StartBatch(c)
        \/ UpsertOk(c)
        \/ UpsertFail(c)
        \/ Sleep(c)
        \/ Return(c)
        \/ Respond(c)

Spec == Init /\ [][Next]_vars

SpecConcurrent == InitConcurrent /\ [][Next]_vars

\* one call whose steps are eventually taken: every awaited external call
\* returns or fails
InitFair == InitWith(SmallFiles, {"c1"}, MaxFaults, MaxStoreFailures)

SpecFair == InitFair /\ [][Next]_vars /\ WF_vars(Next)

(***************************************************************************)
(* scrapeUrl: strategy selection and the two extraction strategies.        *)
(***************************************************************************)
MIN_CONTENT_LENGTH == 100

PLAYWRIGHT_REQUIRED_DOMAINS ==
    <<"twitter.com", "x.com", "instagram.com", "linkedin.com", "facebook.com", "medium.com">>

\* the urls scrapeUrl is called with; each passes new URL(url)
Urls ==
    { "https://twitter.com/user/status/1",
      "https://X.com/home",
      "https://www.linkedin.com/in/someone",
      "https://example.com/article",
      "https://netflix.com/title/1",
      "https://example.org/share?u=medium.com",
      "https://blog.example.net/posts/x.com-review" }

\* the engine argument: a ScraperEngine, or "" when the argument is left out
Engines == {"", "cheerio", "playwright"}

\* the texts a page can yield, before cleaning
PageTexts == {Text(0, 1, 0, 0), Text(2, 1, 99, 2), Text(0, 1, 100, 0), Text(1, 1, 500, 1)}

\* PLAYWRIGHT_REQUIRED_DOMAINS.some(domain => url.toLowerCase().includes(domain))
DetectScraperEngine(u) ==
    IF \E n \in 1..Len(PLAYWRIGHT_REQUIRED_DOMAINS) :
           Includes(ToLowerCase(u), PLAYWRIGHT_REQUIRED_DOMAINS[n])
    THEN "playwright"
    ELSE "cheerio"

\* engine || detectScraperEngine(url)
SelectedEngine(u, e) == IF e # "" THEN e ELSE DetectScraperEngine(u)

\* cleanText: runs of blank characters collapsed, then trimmed; the page texts
\* of the catalogue have no inner runs, so that only the trimming shows
CleanText(t) == Trim(t)

\* what scrape throws to the caller of scrapeUrl
ScrapeThrows ==
    /\ scrapePc' = "threw"
    /\ scraped' = "error"

\* how axios.get(url, SCRAPER_CONFIG) can settle: 200, another 2xx, 404 and
\* 500 (rejected by the default validateStatus), timeout, connection refused
AxiosOutcomes ==
    { Settled(TRUE, "", 200, TRUE),
      Settled(TRUE, "", 204, TRUE),
      Settled(FALSE, "ERR_BAD_REQUEST", 404, TRUE),
      Settled(FALSE, "ERR_BAD_RESPONSE", 500, TRUE),
      Settled(FALSE, "ECONNABORTED", 0, TRUE),
      Settled(FALSE, "ECONNREFUSED", 0, TRUE) }

TooShortMessage == "Conteudo muito curto"

CheerioCatch_NoTimeoutCase(isAxios, err, message) ==
    IF isAxios /\ err.status # 0 THEN Message("Erro HTTP ao acessar URL", err.status, "")
    ELSE IF isAxios /\ err.request THEN Message("Falha de rede ao acessar URL", 0, "")
    ELSE Message("Erro ao fazer scraping da URL", 0, message)

\* the catch of CheerioScraper.scrape: the error it throws for the error it
\* caught, an AxiosError err or an Error with a message
CheerioCatch(isAxios, err, message) ==
    IF isAxios /\ err.code = "ECONNABORTED" THEN Message("Timeout ao acessar URL", 0, "")
    ELSE IF isAxios /\ err.status # 0 THEN Message("Erro HTTP ao acessar URL", err.status, "")
    ELSE IF isAxios /\ err.request THEN Message("Falha de rede ao acessar URL", 0, "")
    ELSE Message("Erro ao fazer scraping da URL", 0, message)

\* the catch of PlaywrightScraper.scrape
PlaywrightCatch(message) == Message("Erro ao fazer scraping com Playwright", 0, message)

TooShort_Never(t) == FALSE

\* cleanText.length < 100
TooShort(t) == Length(t) < MIN_CONTENT_LENGTH

\* const selectedEngine = engine || detectScraperEngine(url)
SelectEngine ==
    /\ scrapePc = "select"
    /\ selectedEngine' = SelectedEngine(url, engine)
    /\ scrapePc' = "create"
    /\ UNCHANGED <<url, engine, browser, content, scraped, fetched, thrown>>
    /\ UNCHANGED pipelineVars
    /\ UNCHANGED loaderVars
    /\ UNCHANGED urlVars
    /\ UNCHANGED streamVars

\* createScraper(selectedEngine), then scraper.scrape(url) is entered
CreateScraper ==
    /\ scrapePc = "create"
    /\ scrapePc' = (IF selectedEngine = "playwright" THEN "launch" ELSE "fetch")
    /\ UNCHANGED <<url, engine, selectedEngine, browser, content, scraped, fetched, thrown>>
    /\ UNCHANGED pipelineVars
    /\ UNCHANGED loaderVars
    /\ UNCHANGED urlVars
    /\ UNCHANGED streamVars

\* CheerioScraper.scrape: the request settles; a response is checked for
\* status 200, its text is extracted, cleaned and gated
CheerioScrape ==
    /\ scrapePc = "fetch"
    /\ \E r \in AxiosOutcomes :
         /\ fetched' = r
         /\ \/ /\ ~r.resolved
               /\ ScrapeThrows
               /\ thrown' = CheerioCatch(TRUE, r, "")
               /\ UNCHANGED content
            \/ /\ r.resolved /\ r.status # 200
               /\ ScrapeThrows
               /\ thrown' = CheerioCatch(FALSE, NotFetched, "HTTP ao acessar URL")
               /\ UNCHANGED content
            \/ /\ r.resolved /\ r.status = 200
               /\ \E t \in PageTexts :
                    /\ content' = CleanText(t)
                    /\ IF TooShort(CleanText(t))
                       THEN ScrapeThrows /\ thrown' = CheerioCatch(FALSE, NotFetched, TooShortMessage)
                       ELSE scrapePc' = "returned" /\ scraped' = "content" /\ UNCHANGED thrown
    /\ UNCHANGED <<url, engine, selectedEngine, browser>>
    /\ UNCHANGED pipelineVars
    /\ UNCHANGED loaderVars
    /\ UNCHANGED urlVars
    /\ UNCHANGED streamVars

\* loader.load(): the loader launches the browser
Launch ==
    /\ scrapePc = "launch"
    /\ \/ /\ browser' = "open"
          /\ scrapePc' = "goto"
          /\ UNCHANGED <<scraped, thrown>>
       \/ /\ ScrapeThrows
          /\ thrown' = PlaywrightCatch("launch")
          /\ UNCHANGED browser
    /\ UNCHANGED <<url, engine, selectedEngine, content, fetched>>
    /\ UNCHANGED pipelineVars
    /\ UNCHANGED loaderVars
    /\ UNCHANGED urlVars
    /\ UNCHANGED streamVars

\* loader.load(): the loader navigates to the url before it calls evaluate.
\* When the navigation fails evaluate is never called and scrape's catch only
\* rewraps the error; whether the loader itself closes the browser then is
\* not decided by this repository.
Navigate ==
    /\ scrapePc = "goto"
    /\ \/ /\ scrapePc' = "evaluate"
          /\ UNCHANGED <<browser, scraped, thrown>>
       \/ /\ ScrapeThrows
          /\ thrown' = PlaywrightCatch("goto")
          /\ browser' \in {"open", "closed"}
    /\ UNCHANGED <<url, engine, selectedEngine, content, fetched>>
    /\ UNCHANGED pipelineVars
    /\ UNCHANGED loaderVars
    /\ UNCHANGED urlVars
    /\ UNCHANGED streamVars

\* the evaluate callback: browser.close() at the end of its try and in its catch
Evaluate ==
    /\ scrapePc = "evaluate"
    /\ browser' = "closed"
    /\ \/ \E t \in PageTexts :
            /\ content' = t
            /\ scrapePc' = "loaded"
            /\ UNCHANGED <<scraped, thrown>>
       \/ /\ ScrapeThrows
          /\ thrown' = PlaywrightCatch("evaluate")
          /\ UNCHANGED content
    /\ UNCHANGED <<url, engine, selectedEngine, fetched>>
    /\ UNCHANGED pipelineVars
    /\ UNCHANGED loaderVars
    /\ UNCHANGED urlVars
    /\ UNCHANGED streamVars

\* after loader.load(): cleanText, the minimum-length gate, the return
GateContent ==
    /\ scrapePc = "loaded"
    /\ content' = CleanText(content)
    /\ IF TooShort(CleanText(content))
       THEN ScrapeThrows /\ thrown' = PlaywrightCatch(TooShortMessage)
       ELSE scrapePc' = "returned" /\ scraped' = "content" /\ UNCHANGED thrown
    /\ UNCHANGED <<url, engine, selectedEngine, browser, fetched>>
    /\ UNCHANGED pipelineVars
    /\ UNCHANGED loaderVars
    /\ UNCHANGED urlVars
    /\ UNCHANGED streamVars

\* one call of scrapeUrl
InitScrape ==
    /\ PipelineInit({NoFile}, {}, 0, 0)
    /\ ScraperInit(Urls, Engines)
    /\ LoaderInit({""})
    /\ UrlInit({})
    /\ StreamInit({})

NextScrape ==
    \/ SelectEngine
    \/ CreateScraper
    \/ CheerioScrape
    \/ Launch
    \/ Navigate
    \/ Evaluate
    \/ GateContent

SpecScrape == InitScrape /\ [][NextScrape]_vars

(***************************************************************************)
(* DocumentLoaderFactory.createLoaderFromFileName.                         *)
(***************************************************************************)
Schemes == {"", "http://", "https://", "HTTP://", "ftp://"}

Stems == {"book", "host.com/docs/book", "pdf"}

Suffixes == {"", ".pdf", ".PDF", ".epub", ".Epub", ".txt", ".pdf.bak", "."}

\* the names createLoaderFromFileName is called with
Locators == {sc \o st \o su : sc \in Schemes, st \in Stems, su \in Suffixes}

\* const type = detectDocumentType(fileName)
Detect ==
    /\ loaderPc = "detect"
    /\ documentType' = DetectDocumentType(locator)
    /\ loaderPc' = (IF DetectDocumentType(locator) = "unsupported" THEN "threw" ELSE "create")
    /\ UNCHANGED <<locator, loader>>
    /\ UNCHANGED pipelineVars
    /\ UNCHANGED scrapeVars
    /\ UNCHANGED urlVars
    /\ UNCHANGED streamVars

\* return this.createLoader(type)
Create ==
    /\ loaderPc = "create"
    /\ loader' = CreateLoader(documentType)
    /\ loaderPc' = (IF CreateLoader(documentType) = "none" THEN "threw" ELSE "created")
    /\ UNCHANGED <<locator, documentType>>
    /\ UNCHANGED pipelineVars
    /\ UNCHANGED scrapeVars
    /\ UNCHANGED urlVars
    /\ UNCHANGED streamVars

\* one call of createLoaderFromFileName
InitLoader ==
    /\ PipelineInit({NoFile}, {}, 0, 0)
    /\ ScraperInit({NoUrl}, {""})
    /\ LoaderInit(Locators)
    /\ UrlInit({})
    /\ StreamInit({})

NextLoader == Detect \/ Create

SpecLoader == InitLoader /\ [][NextLoader]_vars

(***************************************************************************)
(* POST /rag/stream: the route and streamRAG.                              *)
(***************************************************************************)
MaxTokens == 3

Tokens == {"a", "b"}

\* sequences over a set of length at most n
SeqsUpTo(S, n) == UNION {[1..k -> S] : k \in 0..n}

\* the LLM streams of the model: every token sequence, ending normally or
\* failing after some of its tokens were read
LlmStreams ==
    {LlmStream(t, f) : t \in SeqsUpTo(Tokens, MaxTokens), f \in {-1, 0, 1}}

\* data: {"type": ..., "content": ...}; the error event of the route has no type
SseEvent(type, body) == [type |-> type, content |-> body]

ErrorEvent == SseEvent("", "Error processing RAG stream query")

Write_First(w, ev) == <<ev>> \o w

\* res.write(`data: ${JSON.stringify(ev)}\n\n`)
Write(w, ev) == Append(w, ev)

\* the catch of the route: the error event, then res.end()
RouteCatch ==
    /\ written' = Write(written, ErrorEvent)
    /\ ended' = TRUE
    /\ streamPc' = "ended"

\* const searchResults = await searchDocuments({question, topK})
Search ==
    /\ streamPc = "search"
    /\ \/ \E n \in 0..3 :
            /\ searchResults' = n
            /\ streamPc' = (IF n = 0 THEN "empty" ELSE "sources")
            /\ UNCHANGED <<written, ended>>
       \/ /\ RouteCatch
          /\ UNCHANGED searchResults
    /\ UNCHANGED <<llmStream, yielded>>
    /\ UNCHANGED <<pipelineVars, scrapeVars, loaderVars, urlVars>>

\* no result: the answer event, the done event, res.end()
AnswerEmpty ==
    /\ streamPc = "empty"
    /\ written' = Write(Write(written, SseEvent("answer", "I did not find the information")),
                        SseEvent("done", ""))
    /\ ended' = TRUE
    /\ streamPc' = "ended"
    /\ UNCHANGED <<searchResults, llmStream, yielded>>
    /\ UNCHANGED <<pipelineVars, scrapeVars, loaderVars, urlVars>>

\* the sources event, then chains.stream({context, question}) is awaited
WriteSources ==
    /\ streamPc = "sources"
    /\ written' = Write(written, SseEvent("sources", searchResults))
    /\ streamPc' = "open"
    /\ UNCHANGED <<searchResults, llmStream, yielded, ended>>
    /\ UNCHANGED <<pipelineVars, scrapeVars, loaderVars, urlVars>>

\* chains.stream settles: the stream, or a rejection that the route catches
OpenStream ==
    /\ streamPc = "open"
    /\ \/ /\ streamPc' = "tokens"
          /\ UNCHANGED <<written, ended>>
       \/ RouteCatch
    /\ UNCHANGED <<searchResults, llmStream, yielded>>
    /\ UNCHANGED <<pipelineVars, scrapeVars, loaderVars, urlVars>>

\* one turn of for await (const chunk of stream): the next token is written,
\* or reading fails and the route catches, or the stream is over and the done
\* event is written and the response ended
ReadStream ==
    /\ streamPc = "tokens"
    /\ IF llmStream.failsAfter = yielded
       THEN RouteCatch /\ UNCHANGED yielded
       ELSE IF yielded < Len(llmStream.tokens)
       THEN /\ written' = Write(written, SseEvent("token", llmStream.tokens[yielded + 1]))
            /\ yielded' = yielded + 1
            /\ UNCHANGED <<streamPc, ended>>
       ELSE /\ written' = Write(written, SseEvent("done", ""))
            /\ ended' = TRUE
            /\ streamPc' = "ended"
            /\ UNCHANGED yielded
    /\ UNCHANGED <<searchResults, llmStream>>
    /\ UNCHANGED <<pipelineVars, scrapeVars, loaderVars, urlVars>>

\* one request
InitStream ==
    /\ PipelineInit({NoFile}, {}, 0, 0)
    /\ ScraperInit({NoUrl}, {""})
    /\ LoaderInit({""})
    /\ UrlInit({})
    /\ StreamInit(LlmStreams)

NextStream ==
    \/ Search
    \/ AnswerEmpty
    \/ WriteSources
    \/ OpenStream
    \/ ReadStream

SpecStream == InitStream /\ [][NextStream]_vars

(***************************************************************************)
(* processUrl: processDocument on the url, then scrapeUrl for the metadata.*)
(***************************************************************************)
\* the processDocument call of processUrl
UrlCall == "c1"

\* the pages processUrl is called for: the url, and the number of chunks
\* the splitter makes of the text of the page
UrlFiles ==
    {File(u, 1, n, "plain") :
        u \in {"https://example.com/article", "https://twitter.com/user/status/1"}, n \in {1, 2}}

\* scrapeUrl(u, e) is entered
CallScrapeUrl(u, e) ==
    /\ scrapePc' = "select"
    /\ url' = u
    /\ engine' = e
    /\ selectedEngine' = ""
    /\ browser' = "none"
    /\ content' = NoText
    /\ scraped' = "none"
    /\ fetched' = NotFetched
    /\ thrown' = NoMessage
    /\ scrapes' = scrapes + 1

\* scraperEngine || detectScraperEngine(url)
UsedEngine(e, u) == IF e # "" THEN e ELSE DetectScraperEngine(u)

\* 1. createLoaderFromFileName(url), URLDocumentLoader.load: scrapeUrl(url)
LoadUrl(c) ==
    /\ pc[c] = "load"
    /\ DetectDocumentType(input[c].fileName) = "url"
    /\ Log(c, Event("load", 0, 0))
    /\ pc' = [pc EXCEPT ![c] = "loading"]
    /\ CallScrapeUrl(input[c].fileName, "")
    /\ UNCHANGED <<input, documents, chunks, documentId, docChunks, embI, embeddingsVectors,
                   data, i, retries, delay, result, store, nextId, faults, outages,
                   embedCalls, defective, submitted, committed, upsertCalls, faulted, response>>
    /\ UNCHANGED <<urlPc, scraperEngine, indexedWith, urlResponse>>
    /\ UNCHANGED loaderVars
    /\ UNCHANGED streamVars

\* URLDocumentLoader.load: the scrapeUrl call settled; one Document with the
\* scraped content, or the error rewrapped
LoadUrlReturn(c) ==
    /\ pc[c] = "loading"
    /\ scrapePc \in {"returned", "threw"}
    /\ IF scrapePc = "returned"
       THEN /\ documents' = [documents EXCEPT ![c] = <<[page |-> 0, file |-> input[c]]>>]
            /\ indexedWith' = selectedEngine
            /\ pc' = [pc EXCEPT ![c] = "split"]
            /\ UNCHANGED <<result, faulted>>
       ELSE /\ Fail(c, "load")
            /\ UNCHANGED <<documents, indexedWith>>
    /\ UNCHANGED <<input, chunks, documentId, docChunks, embI, embeddingsVectors,
                   data, i, retries, delay, trace, store, nextId, faults, outages,
                   embedCalls, defective, submitted, committed, upsertCalls, response>>
    /\ UNCHANGED <<urlPc, scraperEngine, scrapes, urlResponse>>
    /\ UNCHANGED scrapeVars
    /\ UNCHANGED loaderVars
    /\ UNCHANGED streamVars

\* the awaited processDocument settled: its error leaves processUrl, or
\* scrapeUrl(url, scraperEngine) is called for the metadata
Rescrape ==
    /\ urlPc = "ingest"
    /\ pc[UrlCall] \in {"done", "failed"}
    /\ IF pc[UrlCall] = "failed"
       THEN /\ urlPc' = "threw"
            /\ UNCHANGED scrapeVars
            /\ UNCHANGED scrapes
       ELSE /\ urlPc' = "rescrape"
            /\ CallScrapeUrl(input[UrlCall].fileName, scraperEngine)
    /\ UNCHANGED <<scraperEngine, indexedWith, urlResponse>>
    /\ UNCHANGED pipelineVars
    /\ UNCHANGED loaderVars
    /\ UNCHANGED streamVars

\* the second scrapeUrl settled: the response with the metadata, or its error
UrlReturn ==
    /\ urlPc = "rescrape"
    /\ scrapePc \in {"returned", "threw"}
    /\ IF scrapePc = "returned"
       THEN /\ urlPc' = "done"
            /\ urlResponse' = [success |-> TRUE,
                               documentId |-> result[UrlCall].documentId,
                               chunksCount |-> result[UrlCall].chunksCount,
                               scraperEngine |-> UsedEngine(scraperEngine, input[UrlCall].fileName)]
       ELSE /\ urlPc' = "threw"
            /\ UNCHANGED urlResponse
    /\ UNCHANGED <<scraperEngine, indexedWith, scrapes>>
    /\ UNCHANGED pipelineVars
    /\ UNCHANGED scrapeVars
    /\ UNCHANGED loaderVars
    /\ UNCHANGED streamVars

\* one call of processUrl
InitUrl ==
    /\ PipelineInit(UrlFiles, {UrlCall}, 1, 1)
    /\ ScraperInit({NoUrl}, {""})
    /\ LoaderInit({""})
    /\ UrlInit({"cheerio", "playwright"})
    /\ StreamInit({})

NextUrl ==
    \/ \E c \in {UrlCall} :
        \/ Verify(c)
        \/ LoadUrl(c)
        \/ LoadUrlReturn(c)
        \/ Split(c)
        \/ GenerateDocumentId(c)
        \/ FilterChunks(c)
        \/ EmbedCall(c)
        \/ EmbedReturn(c)
        \/ Validate(c)
        \/ StartBatch(c)
        \/ UpsertOk(c)
        \/ UpsertFail(c)
        \/ Sleep(c)
        \/ Return(c)
    \/ NextScrape
    \/ Rescrape
    \/ UrlReturn

SpecUrl == InitUrl /\ [][NextUrl]_vars

TypeOK ==
    /\ \A c \in Calls : pc[c] \in {"idle", "verify", "load", "loading", "split", "docid", "filter",
                                    "embed", "embedding", "validate", "batch", "upsert", "sleep",
                                    "done", "failed"}
    /\ nextId >= 1
    /\ scrapePc \in {"idle", "select", "create", "fetch", "launch", "goto", "evaluate", "loaded",
                     "returned", "threw"}
    /\ browser \in {"none", "open", "closed"}
    /\ selectedEngine \in Engines
    /\ scraped \in {"none", "content", "error"}
    /\ loaderPc \in {"idle", "detect", "create", "created", "threw"}
    /\ streamPc \in {"idle", "search", "empty", "sources", "open", "tokens", "ended"}
    /\ ended \in BOOLEAN
    /\ yielded \in 0..MaxTokens
    /\ scrapes \in 0..2
    /\ urlPc \in {"idle", "ingest", "rescrape", "done", "threw"}
    /\ indexedWith \in Engines
    /\ loader \in {"none", "PDFDocumentLoader", "EPUBDocumentLoader", "URLDocumentLoader"}

(***************************************************************************)
(* Helpers of the properties.                                              *)
(***************************************************************************)
\* the events of a trace that satisfy a test, in order
Select(tr, Test(_)) == FilterSeq(tr, [k \in 1..Len(tr) |-> Test(tr[k])])

\* the upsert attempts and the waits of write batch b of a call, in order
BatchEvents(c, b) ==
    LET OfBatch(e) == e.batch = b /\ e.ev \in {"upsert-ok", "upsert-fail", "sleep"}
    IN  Select(trace[c], OfBatch)

\* number of events of a kind in the trace of a call
Count(c, ev) == Cardinality({k \in 1..Len(trace[c]) : trace[c][k].ev = ev})

\* a vector is an array of exactly 384 components
Is384(v) == v.kind = "array" /\ v.len = 384

\* number of write batches of n points
WriteBatches(n) == Ceil(n, 50)

\* the call is past its embedding stage
Embedded(c) == pc[c] \in {"validate", "batch", "upsert", "sleep", "done"}
                  \/ (pc[c] = "failed" /\ result[c].error \in {"no-valid-vectors", "upsert"})

\* C1: on every successful return of processDocument, chunksCount is the
\* number of points the call committed to the store.
C1_ChunksCountIsCommittedCount ==
    \A c \in Calls :
        pc[c] = "done" =>
            result[c].chunksCount =
                Cardinality({q \in store : q.payload.documentId = result[c].documentId})

\* C2: every point passed to upsert or held by the store has a vector that
\* is an array of exactly 384 components, and a chunk whose vector is
\* missing, not an array or of another length is in no upsert call.
C2_OnlyValidVectorsWritten ==
    /\ \A q \in store : Is384(q.vector)
    /\ \A c \in Calls :
        /\ \A q \in submitted[c] : Is384(q.vector)
        /\ \A k \in 1..Len(docChunks[c]) :
              (Embedded(c) /\ ~Is384(At(embeddingsVectors[c], k - 1)))
                  => \A q \in submitted[c] \cup store : q.id # docChunks[c][k].id

C2_Witness ==
    \E c \in Calls :
        /\ pc[c] = "done"
        /\ store # {}
        /\ \E k \in 1..Len(docChunks[c]) : ~Is384(At(embeddingsVectors[c], k - 1))

\* C3: a write batch is attempted at most 3 times; the call waits 1000 ms
\* after the 1st failure and 2000 ms after the 2nd and does not wait after
\* the 3rd; a batch that succeeds on the 3rd attempt is committed and the
\* call goes on with the next batch.
C3_PatternOf(evs) ==
    /\ Len(evs) <= 5
    /\ \A k \in 1..Len(evs) :
          /\ k \in {1, 3} => evs[k].ev \in {"upsert-ok", "upsert-fail"}
          /\ k = 2 => evs[k] = [evs[1] EXCEPT !.ev = "sleep", !.n = 1000] /\ evs[1].ev = "upsert-fail"
          /\ k = 4 => evs[k] = [evs[3] EXCEPT !.ev = "sleep", !.n = 2000] /\ evs[3].ev = "upsert-fail"
          /\ k = 5 => evs[k].ev \in {"upsert-ok", "upsert-fail"} /\ evs[4].ev = "sleep"

\* the points of write batch b of a call
C3_BatchPoints(c, b) == {data[c][k] : k \in (50 * (b - 1) + 1)..Min(50 * b, Len(data[c]))}

\* a batch that succeeded on its 3rd attempt is committed and the loop moved on
C3_ThirdAttemptCommits(c, b) ==
    LET evs == BatchEvents(c, b)
    IN  (Len(evs) = 5 /\ evs[5].ev = "upsert-ok") =>
            /\ C3_BatchPoints(c, b) \subseteq store
            /\ i[c] >= 50 * b
            /\ pc[c] = "failed" => trace[c][Len(trace[c])].batch # b

\* the call is waiting exactly after a failure that was not the 3rd of its batch
C3_WaitsAfterFailure(c) ==
    LET n == Len(trace[c])
    IN  (pc[c] = "sleep") <=>
            (n > 0 /\ trace[c][n].ev = "upsert-fail" /\ Len(BatchEvents(c, trace[c][n].batch)) < 5)

C3_RetryWithBackoff ==
    \A c \in Calls :
        /\ C3_WaitsAfterFailure(c)
        /\ \A b \in 1..WriteBatches(Len(data[c])) :
              C3_PatternOf(BatchEvents(c, b)) /\ C3_ThirdAttemptCommits(c, b)

C3_Witness ==
    \E c \in Calls :
        /\ Len(BatchEvents(c, 1)) = 5
        /\ BatchEvents(c, 1)[5].ev = "upsert-ok"
        /\ Len(BatchEvents(c, 2)) >= 1

\* C4: when all 3 attempts of write batch k fail, the call fails with the
\* error of the last attempt, the batches before k stay in the store and no
\* upsert is attempted for a batch after k.
C4_Exhausted(c, k) ==
    /\ Len(BatchEvents(c, k)) = 5
    /\ BatchEvents(c, k)[5].ev = "upsert-fail"

C4_WriteExhaustion ==
    \A c \in Calls : \A k \in 1..WriteBatches(Len(data[c])) :
        C4_Exhausted(c, k) =>
            /\ pc[c] = "failed"
            /\ result[c].kind = "error"
            /\ result[c].cause = Len(trace[c])
            /\ trace[c][result[c].cause] = Event("upsert-fail", k, Len(Slice(data[c], 50 * (k - 1), 50)))
            /\ \A m \in 1..(50 * (k - 1)) : data[c][m] \in store
            /\ \A m \in 1..Len(trace[c]) :
                  trace[c][m].ev \in {"upsert-ok", "upsert-fail"} => trace[c][m].batch <= k

C4_Witness ==
    \E c \in Calls : C4_Exhausted(c, 2) /\ Len(data[c]) > 100

\* the stage an event belongs to
C5_Stage(e) ==
    CASE e.ev \in {"embed", "embedded", "embed-fail"} -> "embed"
      [] e.ev \in {"validate", "upsert-ok", "upsert-fail", "sleep"} -> "write"
      [] OTHER -> e.ev

\* position of a stage in an order of stages
C5_Rank(order, stage) == CHOOSE r \in 1..Len(order) : order[r] = stage

\* the events of every call follow the order; only embed and write repeat
C5_InOrder(order) ==
    \A c \in Calls : \A k \in 1..(Len(trace[c]) - 1) :
        LET a == C5_Rank(order, C5_Stage(trace[c][k]))
            b == C5_Rank(order, C5_Stage(trace[c][k + 1]))
        IN  a <= b /\ (a = b => C5_Stage(trace[c][k]) \in {"embed", "write"})

\* no upsert is issued before the last embedding batch has returned
C5_NoUpsertBeforeLastEmbedding ==
    \A c \in Calls :
        (Count(c, "upsert-ok") + Count(c, "upsert-fail") > 0) =>
            Count(c, "embedded") = Ceil(Len(docChunks[c]), 50)

\* C5 (as claimed): the stages run in the order verify, load, chunk, filter,
\* document identity, embed, validate and write; the document identity is
\* generated only after filtering has succeeded.
C5_Original ==
    /\ C5_InOrder(<<"verify", "load", "chunk", "filter", "identity", "embed", "write", "return">>)
    /\ C5_NoUpsertBeforeLastEmbedding

\* C5 (amended): the stages run in the order verify, load, chunk, document
\* identity, filter, embed, validate and write, each after the previous one
\* has completed; the document identity is generated after chunking has
\* succeeded and before filtering, and no upsert is issued before the last
\* embedding batch has returned.
C5_StagesInOrder ==
    /\ C5_InOrder(<<"verify", "load", "chunk", "identity", "filter", "embed", "write", "return">>)
    /\ C5_NoUpsertBeforeLastEmbedding
    /\ \A c \in Calls :
          /\ documentId[c] # 0 => chunks[c] # <<>>
          /\ Count(c, "filter") > 0 => documentId[c] # 0

C5_Witness ==
    \E c \in Calls : pc[c] = "done" /\ Count(c, "embedded") >= 2 /\ Count(c, "upsert-ok") >= 2

\* C6: no chunk whose trimmed text has fewer than 10 characters is embedded
\* or written, and the chunks that pass the filter carry the indices 0..n-1
\* in their original order.
C6_Long(t) == t.len >= 10

C6_FilteredAndIndexed ==
    \A c \in Calls :
        /\ \A b \in 1..Len(embedCalls[c]) : \A k \in 1..Len(embedCalls[c][b]) :
              C6_Long(embedCalls[c][b][k])
        /\ \A q \in submitted[c] \cup store : C6_Long(q.payload.text)
        /\ \A k \in 1..Len(docChunks[c]) : docChunks[c][k].metadata.chunkIndex = k - 1
        /\ \A k \in 1..(Len(docChunks[c]) - 1) :
              docChunks[c][k].text.key < docChunks[c][k + 1].text.key
        /\ docChunks[c] # <<>> =>
              {docChunks[c][k].text.key : k \in 1..Len(docChunks[c])}
                  = {chunks[c][k].pageContent.key : k \in {m \in 1..Len(chunks[c]) :
                                                           C6_Long(chunks[c][m].pageContent)}}

C6_Witness ==
    \E c \in Calls :
        /\ pc[c] = "done"
        /\ Len(docChunks[c]) > 50
        /\ Len(docChunks[c]) < Len(chunks[c])
        /\ \E k \in 1..Len(chunks[c]) :
              Length(chunks[c][k].pageContent) >= 10 /\ ~C6_Long(chunks[c][k].pageContent)

\* the batches of a call concatenated in call order
RECURSIVE C7_Concat(_)
C7_Concat(batches) ==
    IF batches = <<>> THEN <<>>
    ELSE C7_Concat(SubSeq(batches, 1, Len(batches) - 1)) \o batches[Len(batches)]

\* C7: for N chunk texts the embedding function is called exactly
\* ceil(N/50) times, one call after the other, each with at most 50 texts,
\* and the batches concatenated are the texts; 120 texts go as 50, 50, 20.
C7_EmbeddingBatches ==
    \A c \in Calls :
        LET n == Len(docChunks[c])
            sent == C7_Concat(embedCalls[c])
        IN  /\ \A b \in 1..Len(embedCalls[c]) :
                  Len(embedCalls[c][b]) >= 1 /\ Len(embedCalls[c][b]) <= 50
            /\ Len(embedCalls[c]) <= Ceil(n, 50)
            /\ Len(sent) <= n
            /\ \A k \in 1..Len(sent) : sent[k] = docChunks[c][k].text
            /\ Embedded(c) => (Len(embedCalls[c]) = Ceil(n, 50) /\ Len(sent) = n)
            \* a call is issued only when every earlier call has settled
            /\ Count(c, "embed") - Count(c, "embedded") - Count(c, "embed-fail")
                  = (IF pc[c] = "embedding" THEN 1 ELSE 0)
            /\ (Embedded(c) /\ n = 120) =>
                  [b \in 1..3 |-> Len(embedCalls[c][b])] = <<50, 50, 20>>

C7_Witness ==
    \E c \in Calls : pc[c] = "done" /\ Len(docChunks[c]) = 120 /\ Len(embedCalls[c]) = 3

\* C8: after the embedding stage there are as many vectors as texts,
\* vector[i] is the vector computed from text[i], and every committed point
\* pairs a text with the vector computed from that text.
C8_VectorsMatchTexts ==
    \A c \in Calls :
        /\ Embedded(c) =>
              /\ Len(embeddingsVectors[c]) = Len(docChunks[c])
              /\ \A k \in 1..Len(embeddingsVectors[c]) :
                    embeddingsVectors[c][k].kind # "undefined" =>
                        embeddingsVectors[c][k].of = docChunks[c][k].text
        /\ \A q \in committed[c] : q.vector.of = q.payload.text

\* C9: a missing or bad vector excludes only its own chunk: every other
\* chunk of a call that returns is committed with the vector computed from
\* its own text, and the defect alone does not make the call fail.
C9_OnlyOwnChunkExcluded ==
    \A c \in Calls :
        /\ pc[c] = "done" =>
              \A k \in 1..Len(docChunks[c]) :
                  docChunks[c][k].text \notin defective[c] =>
                      \E q \in store :
                          /\ q.id = docChunks[c][k].id
                          /\ q.payload.text = docChunks[c][k].text
                          /\ q.vector = Vector(docChunks[c][k].text, 384)
        /\ (pc[c] = "failed" /\ result[c].error = "no-valid-vectors") =>
              \A k \in 1..Len(docChunks[c]) : docChunks[c][k].text \in defective[c]

\* the ids of a set of points
C10_Ids(points) == {q.id : q \in points}

\* C10: two calls for the same source, one after the other or interleaved,
\* get different documentIds and disjoint sets of point ids, neither
\* overwrites or removes a point of the other, and the store holds the
\* union of what both committed.
C10_NoDeduplication ==
    \A c \in Calls : \A d \in Calls \ {c} :
        /\ input[c] = input[d]
        /\ (documentId[c] # 0 /\ documentId[d] # 0) => documentId[c] # documentId[d]
        /\ C10_Ids(submitted[c]) \cap C10_Ids(submitted[d]) = {}
        /\ \A q \in submitted[c] : q.payload.documentId = documentId[c]
        /\ store = committed[c] \cup committed[d]
        /\ Cardinality(store) = Cardinality(committed[c]) + Cardinality(committed[d])
        /\ Cardinality(C10_Ids(store)) = Cardinality(store)

C10_Witness ==
    \A c \in Calls : pc[c] = "done" /\ Cardinality(committed[c]) = 51

\* C11: every call ends in exactly one of two outcomes, a success manifest
\* or an error surfaced to the caller, and no stage failure is turned into
\* a success manifest.
C11_SuccessOrSurfacedError ==
    \A c \in Calls :
        /\ pc[c] = "done" <=> result[c].kind = "success"
        /\ pc[c] = "failed" <=> result[c].kind = "error"
        /\ pc[c] \notin {"done", "failed"} => result[c] = NoResult /\ response[c] = NoResponse
        /\ result[c].kind = "success" => faulted[c] = {} /\ result[c].documentId = documentId[c]
        /\ faulted[c] # {} => result[c].kind = "error" /\ faulted[c] = {result[c].error}
        /\ response[c] # NoResponse =>
              /\ response[c].success <=> result[c].kind = "success"
              /\ response[c].status = (IF faulted[c] = {} THEN 200 ELSE 500)

C11_Witness ==
    \E c \in Calls :
        /\ faulted[c] = {"upsert"}
        /\ committed[c] # {}
        /\ response[c].status = 500

\* C12: when the reachability check fails the call fails at once with a
\* connectivity error: the check is not retried and no loader, splitter,
\* embedding call or upsert is invoked.
C12_ConnectivityFailsFast ==
    \A c \in Calls :
        "connectivity" \in faulted[c] =>
            /\ pc[c] = "failed"
            /\ result[c].error = "connectivity"
            /\ trace[c] = <<Event("verify", 0, 0)>>
            /\ documents[c] = <<>> /\ chunks[c] = <<>>
            /\ embedCalls[c] = <<>> /\ upsertCalls[c] = <<>>

C12_Witness ==
    \E c \in Calls : "connectivity" \in faulted[c] /\ response[c].status = 500

\* the call was given a PDF whose extracted text is empty after trimming
C13_EmptyPdf(c) ==
    /\ DetectDocumentType(input[c].fileName) = "pdf"
    /\ ExtractedText(input[c]).len = 0

\* C13: a PDF whose extracted text is empty after trimming makes the load
\* stage fail; no embedding call and no upsert is issued and no document
\* identity is generated or returned.
C13_EmptyPdfFailsLoad ==
    \A c \in Calls :
        (C13_EmptyPdf(c) /\ Count(c, "load") > 0) =>
            /\ pc[c] = "failed"
            /\ faulted[c] = {"load"}
            /\ result[c].error = "load"
            /\ embedCalls[c] = <<>> /\ upsertCalls[c] = <<>>
            /\ \A q \in store : q.payload.fileName # input[c].fileName
            /\ documentId[c] = 0 /\ result[c].documentId = 0 /\ response[c].documentId = 0

C13_Witness ==
    \E c \in Calls :
        /\ C13_EmptyPdf(c)
        /\ Length(ExtractedText(input[c])) > 0
        /\ Count(c, "load") > 0
        /\ response[c].status = 500

\* C14: when no chunk passes the minimum-length filter the call fails with
\* a no-valid-chunks error and issues no embedding call and no upsert.
C14_NoValidChunksFails ==
    \A c \in Calls :
        (Count(c, "filter") > 0 /\ \A k \in 1..Len(chunks[c]) : ~C6_Long(chunks[c][k].pageContent)) =>
            /\ pc[c] = "failed"
            /\ faulted[c] = {"no-valid-chunks"}
            /\ result[c].error = "no-valid-chunks"
            /\ embedCalls[c] = <<>> /\ upsertCalls[c] = <<>> /\ submitted[c] = {}

C14_Witness ==
    \E c \in Calls : result[c].error = "no-valid-chunks" /\ Len(chunks[c]) > 50

\* C15: when no vector passes the dimension validation the call fails with
\* a no-valid-vectors error and issues no upsert.
C15_NoValidVectorsFails ==
    \A c \in Calls :
        (Count(c, "validate") > 0
            /\ \A k \in 1..Len(docChunks[c]) : ~Is384(At(embeddingsVectors[c], k - 1))) =>
            /\ pc[c] = "failed"
            /\ faulted[c] = {"no-valid-vectors"}
            /\ result[c].error = "no-valid-vectors"
            /\ upsertCalls[c] = <<>> /\ submitted[c] = {}
            /\ Count(c, "upsert-ok") + Count(c, "upsert-fail") = 0

C15_Witness ==
    \E c \in Calls :
        /\ result[c].error = "no-valid-vectors"
        /\ Len(embedCalls[c]) = 1
        /\ response[c].status = 500

\* C16: a failure of one embedding batch fails the whole call: the batch is
\* not retried, no later batch is submitted and no upsert is issued, so the
\* call leaves the store as it was.
C16_EmbeddingFailureIsFatal ==
    \A c \in Calls :
        Count(c, "embed-fail") > 0 =>
            LET last == trace[c][Len(trace[c])]
            IN  /\ pc[c] = "failed"
                /\ result[c].error = "embedding"
                /\ Count(c, "embed-fail") = 1
                /\ last.ev = "embed-fail"
                /\ Count(c, "embed") = last.batch
                /\ Len(embedCalls[c]) = last.batch
                /\ upsertCalls[c] = <<>> /\ committed[c] = {}
                /\ \A q \in store : q.payload.documentId # documentId[c]

C16_Witness ==
    \E c \in Calls :
        /\ Count(c, "embed-fail") = 1
        /\ Len(embedCalls[c]) = 2
        /\ Len(docChunks[c]) > 100

\* the upsert attempts in the trace of a call, in order
C17_Attempts(c) ==
    LET IsAttempt(e) == e.ev \in {"upsert-ok", "upsert-fail"}
    IN  Select(trace[c], IsAttempt)

\* C17: the upsert batches partition the valid points in order: every
\* upsert call carries between 1 and 50 points, batch j (from 0) carries
\* the valid points 50j..min(50j+49, n-1), and every valid point is in
\* exactly one batch.
C17_BatchesPartition ==
    \A c \in Calls :
        LET n == Len(data[c])
            att == C17_Attempts(c)
            oks == [k \in 1..Len(att) |-> att[k].ev = "upsert-ok"]
            okBatches == FilterSeq([k \in 1..Len(att) |-> att[k].batch], oks)
        IN  /\ Len(att) = Len(upsertCalls[c])
            /\ \A k \in 1..Len(att) :
                  LET j == att[k].batch - 1
                      pts == upsertCalls[c][k].points
                  IN  /\ Len(pts) >= 1 /\ Len(pts) <= 50
                      /\ Len(pts) = Min(50 * j + 49, n - 1) - 50 * j + 1
                      /\ \A m \in 1..Len(pts) : pts[m] = data[c][50 * j + m]
            /\ \A k \in 1..Len(okBatches) : okBatches[k] = k
            /\ pc[c] = "done" => Len(okBatches) = Ceil(n, 50)

C17_Witness ==
    \E c \in Calls :
        /\ pc[c] = "done"
        /\ Len(data[c]) = 119
        /\ Len(upsertCalls[c]) > 3

\* C18: every point passed to upsert has the id of its chunk and a payload
\* whose fields are exactly text, documentId, chunkIndex, fileName,
\* uploadedAt and page.
C18_PayloadSchema ==
    \A c \in Calls : \A q \in submitted[c] :
        /\ \E k \in 1..Len(docChunks[c]) :
              docChunks[c][k].id = q.id /\ docChunks[c][k].text = q.payload.text
        /\ DOMAIN q.payload = {"text", "documentId", "chunkIndex", "fileName", "uploadedAt", "page"}

\* C19: the rendered extraction releases the browser on every exit path of
\* scrape: once the call has returned or thrown, no browser it opened is
\* still open.
C19_BrowserReleased ==
    (selectedEngine = "playwright" /\ scrapePc \in {"returned", "threw"}) => browser # "open"

\* the host of a url, in lower case
C20_Hostname(u) ==
    LET l == ToLowerCase(u)
        starts == {k \in 1..(Len(l) - 2) : SubSeq(l, k, k + 2) = "://"}
        from == IF starts = {} THEN 1 ELSE 3 + CHOOSE k \in starts : \A m \in starts : k <= m
        stops == {k \in from..Len(l) : CharAt(l, k) \in {"/", "?", "#", ":"}}
        to == IF stops = {} THEN Len(l) ELSE (CHOOSE k \in stops : \A m \in stops : k <= m) - 1
    IN  SubSeq(l, from, to)

\* the domain of the url is one of the rendering-required domains, or under one
C20_DomainListed(u) ==
    LET h == C20_Hostname(u)
    IN  \E n \in 1..Len(PLAYWRIGHT_REQUIRED_DOMAINS) :
            LET d == PLAYWRIGHT_REQUIRED_DOMAINS[n]
            IN  \/ h = d
                \/ /\ Len(h) > Len(d)
                   /\ SubSeq(h, Len(h) - Len(d), Len(h)) = "." \o d

\* C20: with a strategy hint scrapeUrl uses exactly that engine; without one
\* the engine is playwright if and only if the domain of the url is one of
\* the rendering-required domains, and cheerio for every other url.
C20_SelectionByDomain ==
    selectedEngine # "" =>
        selectedEngine = (IF engine # "" THEN engine
                          ELSE IF C20_DomainListed(url) THEN "playwright" ELSE "cheerio")

\* the static strategy ran and its request settled
C21_Fetched == selectedEngine = "cheerio" /\ scrapePc \in {"returned", "threw"}

\* C21: the static-fetch scraper reports failures as distinguishable kinds
\* and swallows none: a 404 gives an HTTP-status error, a 200 page whose
\* cleaned text is under 100 characters a content-too-short error, and
\* timeout, connection failure, non-2xx status and content-too-short give
\* four different errors.
C21_DistinguishableErrors ==
    C21_Fetched =>
        /\ (~fetched.resolved \/ fetched.status # 200 \/ Length(content) < 100) =>
               scrapePc = "threw" /\ scraped = "error" /\ thrown # NoMessage
        /\ fetched.status = 404 => thrown.text = "Erro HTTP ao acessar URL" /\ thrown.status = 404
        /\ thrown.text = "Erro HTTP ao acessar URL" <=>
               (~fetched.resolved /\ fetched.status # 0 /\ fetched.status \notin 200..299)
        /\ thrown.text = "Timeout ao acessar URL" <=> fetched.code = "ECONNABORTED"
        /\ thrown.text = "Falha de rede ao acessar URL" <=> fetched.code = "ECONNREFUSED"
        /\ thrown.inner = TooShortMessage <=>
               (fetched.resolved /\ fetched.status = 200 /\ Length(content) < 100)

C21_Witness ==
    /\ C21_Fetched
    /\ fetched.code = "ECONNABORTED"
    /\ thrown.text = "Timeout ao acessar URL"

\* C22: every ScrapedContent returned by scrapeUrl, with either engine, has
\* a content of at least 100 characters after cleanup; a page whose cleaned
\* text is shorter produces an error and no ScrapedContent.
C22_MinimumContent ==
    /\ scraped = "content" => scrapePc = "returned" /\ Length(content) >= 100 /\ content = CleanText(content)
    /\ scrapePc = "returned" => scraped = "content"
    /\ (scrapePc \in {"returned", "threw"} /\ content # NoText /\ Length(CleanText(content)) < 100) =>
           scraped = "error" /\ thrown.inner = TooShortMessage

C22_Witness ==
    /\ scraped = "content"
    /\ selectedEngine = "playwright"
    /\ Length(content) = 100

\* the string ends with the suffix
C23_EndsWith(str, suffix) ==
    Len(str) >= Len(suffix) /\ SubSeq(str, Len(str) - Len(suffix) + 1, Len(str)) = suffix

\* the extension of the name is ext: the name ends with a dot and ext, or,
\* having no dot at all, is ext itself; letter case is ignored
C23_HasExtension(name, ext) ==
    \/ C23_EndsWith(ToLowerCase(name), "." \o ext)
    \/ ToLowerCase(name) = ext

C24_Bounded ==
    \A c \in Calls :
        /\ Len(embedCalls[c]) <= Ceil(Len(docChunks[c]), 50)
        /\ Len(upsertCalls[c]) <= 3 * Ceil(Len(data[c]), 50)

\* the call has returned its manifest or thrown
C24_Ended == \A c \in Calls : pc[c] \in {"idle", "done", "failed"}

\* C24: every processDocument call terminates: provided each external call
\* returns or fails, the call reaches a success manifest or an error after
\* at most ceil(N/50) embedding calls and at most 3 * ceil(M/50) upsert
\* attempts, N the number of valid chunks and M the number of valid vectors.
C24_Terminates == []C24_Bounded /\ <>C24_Ended

C24_Witness ==
    \E c \in Calls :
        /\ pc[c] = "failed"
        /\ Len(data[c]) > 50
        /\ Len(upsertCalls[c]) = 3 * Ceil(Len(data[c]), 50)
        /\ Len(embedCalls[c]) = Ceil(Len(docChunks[c]), 50)

\* the events of a kind among the events of a batch
C27_Of(evs, kind) == LET IsKind(e) == e.ev = kind IN Select(evs, IsKind)

RECURSIVE C27_Doubled(_, _)
C27_Doubled(d, times) == IF times = 0 THEN d ELSE C27_Doubled(2 * d, times - 1)

\* C27: the retry state is per batch: every write batch starts with a budget
\* of 3 attempts and a delay of 1000 ms, whatever the batches before it used.
C27_FreshBudgetPerBatch ==
    \A c \in Calls : \A b \in 1..WriteBatches(Len(data[c])) :
        LET evs == BatchEvents(c, b)
            fails == Len(C27_Of(evs, "upsert-fail"))
            sleeps == C27_Of(evs, "sleep")
            last == trace[c][Len(trace[c])]
        IN  /\ Len(sleeps) >= 1 => sleeps[1].n = 1000
            /\ (pc[c] \in {"upsert", "sleep"} /\ b = BatchNumber(i[c], 50)) =>
                   /\ retries[c] = 3 - fails
                   /\ delay[c] = C27_Doubled(1000, Len(sleeps))
            /\ (pc[c] = "failed" /\ result[c].error = "upsert" /\ last.batch = b) => fails = 3

C27_Witness ==
    \E c \in Calls :
        /\ Len(C27_Of(BatchEvents(c, 1), "upsert-fail")) = 2
        /\ Len(C27_Of(BatchEvents(c, 2), "upsert-fail")) = 3
        /\ pc[c] = "failed"

\* the successful upsert calls of a call that carry a point
C28_SuccessesWith(c, q) ==
    {j \in 1..Len(upsertCalls[c]) : upsertCalls[c][j].ok /\ q \in Points(upsertCalls[c][j].points)}

\* C28: each write batch has at most one successful upsert: once an upsert
\* of a batch succeeded the batch is not submitted again, and on successful
\* return every valid point was part of exactly one successful upsert.
C28_OneSuccessPerBatch ==
    \A c \in Calls :
        /\ \A b \in 1..WriteBatches(Len(data[c])) :
              LET evs == BatchEvents(c, b)
              IN  /\ Len(C27_Of(evs, "upsert-ok")) <= 1
                  /\ \A k \in 1..(Len(evs) - 1) : evs[k].ev # "upsert-ok"
        /\ pc[c] = "done" =>
              \A k \in 1..Len(data[c]) : Cardinality(C28_SuccessesWith(c, data[c][k])) = 1

C28_Witness ==
    \E c \in Calls :
        /\ pc[c] = "done"
        /\ Len(data[c]) > 100
        /\ Count(c, "upsert-fail") >= 2
        /\ Count(c, "upsert-ok") = 3

\* C29: all points a call upserts carry the same documentId, the one the
\* manifest returns on success; their chunkIndex values are pairwise
\* distinct; and no point of the call carries the documentId of another call.
C29_OneDocumentIdPerCall ==
    \A c \in Calls :
        /\ \A q \in submitted[c] :
              /\ q.payload.documentId = documentId[c]
              /\ \A d \in Calls \ {c} : q.payload.documentId # documentId[d]
        /\ \A q \in submitted[c] : \A r \in submitted[c] :
              q.payload.chunkIndex = r.payload.chunkIndex => q = r
        /\ pc[c] = "done" => result[c].documentId = documentId[c] /\ documentId[c] # 0

C29_Witness ==
    \E c \in Calls : \E d \in Calls \ {c} :
        /\ pc[c] = "done" /\ pc[d] = "done"
        /\ Cardinality(submitted[c]) = 51
        /\ Cardinality(submitted[d]) = 50

\* the token events of a token sequence
C26_TokenEvents(tokens) == [k \in 1..Len(tokens) |-> SseEvent("token", tokens[k])]

\* the events of a completed answer: sources, the tokens in order, done
C26_Complete ==
    <<SseEvent("sources", searchResults)>> \o C26_TokenEvents(llmStream.tokens)
        \o <<SseEvent("done", "")>>

\* the events of a request whose search found nothing: answer, done
C26_NoAnswer == <<SseEvent("answer", "I did not find the information"), SseEvent("done", "")>>

\* written is the beginning of the sequence
C26_Prefix(seq) == Len(written) <= Len(seq) /\ written = SubSeq(seq, 1, Len(written))

C26_LlmFailed == ended /\ written[Len(written)] = ErrorEvent

C25_HintedEngineIndexes ==
    /\ (scraperEngine # "" /\ indexedWith # "") => indexedWith = scraperEngine
    /\ urlPc = "done" => urlResponse.scraperEngine = indexedWith

\* the pipeline of the call committed all its points
C30_Committed == pc[UrlCall] = "done"

\* C30: once the pipeline inside processUrl has committed all points,
\* processUrl returns a success response with that documentId and
\* chunksCount; it returns an error only when the pipeline failed; and it
\* fetches the url once per call.
C30_CommittedMeansSuccess ==
    /\ (C30_Committed /\ urlPc \in {"done", "threw"}) =>
          /\ urlPc = "done"
          /\ urlResponse.success
          /\ urlResponse.documentId = documentId[UrlCall]
          /\ urlResponse.chunksCount = result[UrlCall].chunksCount
    /\ urlPc = "threw" => pc[UrlCall] = "failed"
    /\ scrapes <= 1

====
